---- MODULE Spec2Model ----
(***************************************************************************)
(* Employee Management API: the credential, position and employee stores   *)
(* (SQLite tables), the JWT service, and the request handlers that run     *)
(* over them.  A request is a process: it starts idle, runs its handler    *)
(* one store call at a time (other requests may run between two store      *)
(* calls, as between two awaits of the event loop) and ends with an HTTP   *)
(* response.                                                               *)
(***************************************************************************)
EXTENDS Integers, Sequences, FiniteSets, TLC

\* ------------------------------------------------------------ values

\* Python's None
None == [none |-> TRUE]

\* a raised exception, as a value
Raise(type, msg) == [exc |-> type, msg |-> msg]
IsExc(r) == "exc" \in DOMAIN r

Min(a, b) == IF a <= b THEN a ELSE b

\* the concurrent requests
Procs == {1, 2}

Usernames == {"alice", "bob"}

\* passwords are sequences of code points
Secret1 == <<115, 101, 99, 114, 101, 116, 49>>
Secret2 == <<115, 101, 99, 114, 101, 116, 50>>
LongPrefix == [i \in 1..72 |-> 97]
LongB == LongPrefix \o <<98>>
LongC == LongPrefix \o <<99>>
Passwords == {Secret1, Secret2, LongB, LongC}

\* the values bcrypt.gensalt() may return
NumSalts == 1
Salts == 1..NumSalts

\* a Python str: its characters
Str(chars) == [str |-> chars]

Engineer == Str(<<"E">>)
Manager == Str(<<"M">>)
Blank == Str(<<" ">>)
Empty == Str(<<>>)

\* the values uuid4() may return
NumIds == 2
Uuid4Values == 1..NumIds

\* ------------------------------------------------------------ str / UUID

\* str.strip(): drop leading and trailing whitespace
RECURSIVE lstrip(_)
lstrip(s) == IF s # <<>> /\ Head(s) = " " THEN lstrip(Tail(s)) ELSE s

RECURSIVE rstrip(_)
rstrip(s) ==
    IF s # <<>> /\ s[Len(s)] = " " THEN rstrip(SubSeq(s, 1, Len(s) - 1)) ELSE s

strip(s) == Str(rstrip(lstrip(s.str)))

\* str(uuid): the hexadecimal text of the id (two digits here)
UuidStr(u) == <<u \div 16, u % 16>>

\* UUID(text): the id a hexadecimal text denotes
UUID(t) == t[1] * 16 + t[2]

\* str.encode('utf-8'): code points to bytes; ASCII text is its own encoding
RECURSIVE encode_utf8(_)
encode_utf8(s) ==
    IF \A i \in 1..Len(s) : s[i] < 128 THEN s
    ELSE LET c == Head(s)
             b == IF c < 128 THEN <<c>>
                  ELSE <<192 + (c \div 64), 128 + (c % 64)>>
         IN  b \o encode_utf8(Tail(s))

\* ------------------------------------------------------------ entities

\* Position.__post_init__
Position(position_id, position_name) ==
    IF position_name = Empty \/ strip(position_name) = Empty
    THEN Raise("ValueError", "Position name cannot be empty")
    ELSE [position_id |-> position_id, position_name |-> position_name]

\* Employee.__post_init__
Employee(emp_id, name, position_id) ==
    IF name = Empty \/ strip(name) = Empty
    THEN Raise("ValueError", "Employee name cannot be empty")
    ELSE [emp_id |-> emp_id, name |-> name, position_id |-> position_id]

\* ------------------------------------------------------------ bcrypt

\* The source pins no release of bcrypt, and the releases differ on passwords
\* of more than 72 bytes: up to 4 bcrypt reads the first 72 bytes and ignores
\* the rest, from 5 on it raises ValueError.  The major version installed:
BcryptVersions == {4, 5}

\* bcrypt reads at most this many bytes of the password
BcryptMaxBytes == 72

\* a value a call returned, as opposed to an exception it raised
Return(v) == [value |-> v]

\* bcrypt.hashpw(password, salt): the salt and a digest of the salt and the
\* first 72 bytes of the password; the digest is an ideal (collision-free)
\* function of the two
bcrypt_hashpw(version, password, salt) ==
    IF version >= 5 /\ Len(password) > BcryptMaxBytes
    THEN Raise("ValueError", "password cannot be longer than 72 bytes")
    ELSE [salt |-> salt,
          digest |-> <<salt, SubSeq(password, 1, Min(Len(password), BcryptMaxBytes))>>]

\* bcrypt.checkpw(password, hashed): rehash under the salt of the hash
bcrypt_checkpw(version, password, hashed) ==
    LET rehashed == bcrypt_hashpw(version, password, hashed.salt)
    IN  IF IsExc(rehashed) THEN rehashed ELSE Return(rehashed = hashed)

\* SQLiteAuthRepository._hash_password, salt being what gensalt() returned
_hash_password(version, password, salt) ==
    bcrypt_hashpw(version, encode_utf8(password), salt)

\* SQLiteAuthRepository._verify_password
_verify_password(version, password, hashed_password) ==
    bcrypt_checkpw(version, encode_utf8(password), hashed_password)

\* ------------------------------------------------------------ JWT service

SECRET_KEY == "your-secret-key-here-change-in-production"
OtherKey == "not-the-secret-key"

\* the default lifetime of a token, in hours; the clock counts hours
DefaultTTL == 24

\* HMAC of the claims under a key: an ideal (unforgeable) signature
Sign(key, algorithm, claims) == [key |-> key, alg |-> algorithm, claims |-> claims]

\* jose.jwt.encode
jwt_encode(claims, key, algorithm) ==
    [alg |-> algorithm, claims |-> claims, sig |-> Sign(key, algorithm, claims)]

\* jose.jwt.decode that does not look at the exp claim
jwt_decode_without_exp(token, key, algorithms, now) ==
    IF token.alg \notin algorithms \/ token.sig # Sign(key, token.alg, token.claims)
    THEN Raise("JWTError", "Signature verification failed.")
    ELSE token.claims

\* jose.jwt.decode: the signature, then the exp claim when there is one
jwt_decode(token, key, algorithms, now) ==
    IF token.alg \notin algorithms \/ token.sig # Sign(key, token.alg, token.claims)
    THEN Raise("JWTError", "Signature verification failed.")
    ELSE IF "exp" \in DOMAIN token.claims /\ token.claims.exp < now
    THEN Raise("ExpiredSignatureError", "Signature has expired.")
    ELSE token.claims

\* timedelta(hours=h)
timedelta(h) == [hours |-> h]

\* dict.copy() followed by dict.update({key: value})
dict_update(d, key, value) ==
    [k \in DOMAIN d \cup {key} |-> IF k = key THEN value ELSE d[k]]

\* create_access_token that takes the lifetime for the expiry
create_access_token_absolute(data, expires_delta, now) ==
    jwt_encode(dict_update(data, "exp", DefaultTTL), SECRET_KEY, "HS256")

\* JWTService.create_access_token at time now; data is a dict (a record);
\* a timedelta of zero is falsy, as None is
create_access_token(data, expires_delta, now) ==
    LET expire == IF expires_delta # None /\ expires_delta.hours # 0
                  THEN now + expires_delta.hours
                  ELSE now + DefaultTTL
    IN  jwt_encode(dict_update(data, "exp", expire), SECRET_KEY, "HS256")

\* JWTService.verify_token at time now
verify_token(token, now) ==
    LET payload == jwt_decode(token, SECRET_KEY, {"HS256"}, now)
    IN  IF IsExc(payload) THEN None ELSE payload

\* ------------------------------------------------------------ state

VARIABLES
    bcrypt_version, \* the major version of the bcrypt installed
    tables,      \* the tables the database file has
    startups,    \* the states of the file initialize has run on: "new"
                 \* (no table), "filled" (rows in every table), "other"
    users,       \* table users: a sequence of rows, the row's id its index
    positions,   \* table positions: a set of rows
    employees,   \* table employees: a set of rows
    clock,       \* the time, in hours
    issued,      \* the tokens login has handed out
    pc,          \* per request: "idle" or the handler's next step
    req,         \* per request: the operation and its inputs
    local,       \* per request: the handler's local variables
    resp,        \* per request: the HTTP response, None while there is none
    registered,  \* per username: the password of its successful register
    touched      \* per request: whether another request has written the
                 \* rows of its request, since its call (call) and since its
                 \* return (ret); the requests naming the same username that
                 \* were running when it was called (with); whether the
                 \* username it names was unregistered when it was called (free)

vars == <<bcrypt_version, tables, startups, users, positions, employees, clock, issued,
          pc, req, local, resp, registered, touched>>

Response(status, detail, body) == [status |-> status, detail |-> detail, body |-> body]

\* the tables of the schema
TableNames == {"positions", "employees", "users"}

\* the state when the application serves: lifespan has run initialize on a
\* new database file
Init ==
    /\ bcrypt_version \in BcryptVersions
    /\ tables = TableNames
    /\ startups = {"new"}
    /\ users = <<>>
    /\ positions = {}
    /\ employees = {}
    /\ clock = 0
    /\ issued = {}
    /\ pc = [p \in Procs |-> "idle"]
    /\ req = [p \in Procs |-> None]
    /\ local = [p \in Procs |-> None]
    /\ resp = [p \in Procs |-> None]
    /\ registered = [u \in Usernames |-> None]
    /\ touched = [p \in Procs |-> [call |-> FALSE, ret |-> FALSE, with |-> {},
                                    free |-> FALSE]]

HTTPException(status_code, detail) == Response(status_code, detail, None)

IsResponse(r) == "status" \in DOMAIN r

InternalServerError == Response(500, "Internal Server Error", None)

\* an exception no handler catches ends the request with status 500
Uncaught(result, otherwise) == IF IsExc(result) THEN InternalServerError ELSE otherwise

\* a handler's last step: the response is sent and the request is over
Finish(p, response) ==
    /\ pc' = [pc EXCEPT ![p] = "idle"]
    /\ local' = [local EXCEPT ![p] = None]
    /\ resp' = [resp EXCEPT ![p] = response]

\* a handler's step that leaves it waiting at its next store call
Goto(p, label, locals) ==
    /\ pc' = [pc EXCEPT ![p] = label]
    /\ local' = [local EXCEPT ![p] = locals]
    /\ resp' = [resp EXCEPT ![p] = None]

\* the ids of the position rows and of the employee rows a request names
\* or was answered with
RequestIds(q, field) ==
    (IF field \in DOMAIN req[q] THEN {req[q][field]} ELSE {})
    \cup (IF resp[q] # None /\ resp[q].body # None /\ field \in DOMAIN resp[q].body
          THEN {resp[q].body[field]} ELSE {})

\* request p takes a step that writes the position rows and employee rows of
\* the given ids; begins says that the step is the first of a new request
Touch(p, begins, position_ids, emp_ids) ==
    touched' =
      [q \in Procs |->
         IF q = p
         THEN IF begins
              THEN [call |-> FALSE, ret |-> FALSE,
                    with |-> {r \in Procs \ {p} :
                                /\ pc[r] # "idle"
                                /\ "username" \in DOMAIN req'[p]
                                /\ "username" \in DOMAIN req[r]
                                /\ req[r].username = req'[p].username},
                    free |-> /\ "username" \in DOMAIN req'[p]
                             /\ \A i \in 1..Len(users) :
                                   users[i].username # req'[p].username]
              ELSE touched[q]
         ELSE IF \/ position_ids \cap RequestIds(q, "position_id") # {}
                 \/ emp_ids \cap RequestIds(q, "emp_id") # {}
              THEN [touched[q] EXCEPT !.call = TRUE,
                                      !.ret = touched[q].ret \/ pc[q] = "idle"]
              ELSE IF begins THEN [touched[q] EXCEPT !.with = touched[q].with \ {p}]
              ELSE touched[q]]

\* ------------------------------------------------------------ credential store

\* INSERT INTO users were username not UNIQUE
users_insert_without_unique(tbl, username, password_hash) ==
    [tbl |-> Append(tbl, [id |-> Len(tbl) + 1, username |-> username,
                          password_hash |-> password_hash])]

\* INSERT INTO users under username UNIQUE, id AUTOINCREMENT
users_insert(tbl, username, password_hash) ==
    IF \E i \in 1..Len(tbl) : tbl[i].username = username
    THEN Raise("IntegrityError", "UNIQUE constraint failed: users.username")
    ELSE [tbl |-> Append(tbl, [id |-> Len(tbl) + 1, username |-> username,
                               password_hash |-> password_hash])]

\* SQLiteAuthRepository.create_user from its INSERT on: the result and the table
create_user(tbl, username, hashed_password) ==
    LET r == users_insert(tbl, username, hashed_password)
    IN  IF IsExc(r) THEN [ok |-> FALSE, users |-> tbl]
        ELSE [ok |-> TRUE, users |-> r.tbl]

\* SQLiteAuthRepository.verify_user: the boolean it returns, or the
\* exception of bcrypt.checkpw, which it does not catch
verify_user(version, tbl, username, password) ==
    IF \E i \in 1..Len(tbl) : tbl[i].username = username
    THEN LET row == tbl[CHOOSE i \in 1..Len(tbl) : tbl[i].username = username]
         IN  _verify_password(version, password, row.password_hash)
    ELSE Return(FALSE)

\* ------------------------------------------------------------ auth service

TokenResponseDTO(access_token) ==
    [access_token |-> access_token, token_type |-> "bearer"]

\* AuthUseCase.login
AuthUseCase_login(version, tbl, username, password, now) ==
    LET verified == verify_user(version, tbl, username, password)
    IN  IF IsExc(verified) THEN verified
        ELSE IF verified.value
        THEN TokenResponseDTO(create_access_token([sub |-> username], None, now))
        ELSE None

\* the register controller: the response to POST /auth/register
register_response(success) ==
    IF ~success THEN HTTPException(400, "Username already exists or invalid data")
    ELSE Response(201, "User created successfully", None)

\* POST /auth/register arrives: the body is received and validated as a
\* UserCreateDTO, and the handler is about to run
register(p, username, password) ==
    /\ pc[p] = "idle"
    /\ req' = [req EXCEPT ![p] = [op |-> "register", username |-> username,
                                  password |-> password]]
    /\ Goto(p, "hash_password", None)
    /\ Touch(p, TRUE, {}, {})
    /\ UNCHANGED <<bcrypt_version, tables, startups, users, positions, employees, clock,
                   issued, registered>>

\* POST /auth/register up to the INSERT: the password is hashed, salt being
\* what gensalt() returned, and the connection opened; create_user catches
\* the exception of the hashing and returns False
register_hash(p, salt) ==
    /\ pc[p] = "hash_password"
    /\ LET hashed_password == _hash_password(bcrypt_version, req[p].password, salt)
       IN  IF IsExc(hashed_password) THEN Finish(p, register_response(FALSE))
           ELSE Goto(p, "create_user", [hashed_password |-> hashed_password])
    /\ UNCHANGED <<bcrypt_version, tables, startups, users, positions, employees, clock,
                   issued, registered, req, touched>>

\* POST /auth/register from the INSERT on
register_insert(p) ==
    /\ pc[p] = "create_user"
    /\ LET success == create_user(users, req[p].username, local[p].hashed_password)
       IN  /\ users' = success.users
           /\ registered' =
                 IF success.ok
                 THEN [registered EXCEPT ![req[p].username] =
                                            [password |-> req[p].password]]
                 ELSE registered
           /\ Finish(p, register_response(success.ok))
    /\ UNCHANGED <<bcrypt_version, tables, startups, positions, employees, clock,
                   issued, req, touched>>

\* the login controller: the response to POST /auth/login
login_response(version, tbl, username, password, now) ==
    LET token == AuthUseCase_login(version, tbl, username, password, now)
    IN  IF token = None
        THEN HTTPException(401, "Invalid username or password")
        ELSE Uncaught(token, Response(200, "", token))

\* POST /auth/login
login(p, username, password) ==
    /\ pc[p] = "idle"
    /\ req' = [req EXCEPT ![p] = [op |-> "login", username |-> username,
                                  password |-> password]]
    /\ LET response == login_response(bcrypt_version, users, username, password, clock)
       IN  /\ issued' = IF response.body = None THEN issued
                        ELSE issued \cup {response.body.access_token}
           /\ Finish(p, response)
    /\ Touch(p, TRUE, {}, {})
    /\ UNCHANGED <<bcrypt_version, tables, startups, users, positions, employees, clock,
                   registered>>

\* ------------------------------------------------------------ bearer authentication

\* get_current_user behind HTTPBearer: credentials is the bearer token, or
\* None when the request has no Authorization header
\* get_current_user without the check of the subject claim
get_current_user_without_sub_check(credentials, now) ==
    IF credentials = None THEN HTTPException(403, "Not authenticated")
    ELSE LET payload == verify_token(credentials, now)
         IN  IF payload = None
             THEN HTTPException(401, "Invalid authentication credentials")
             ELSE [username |-> IF "sub" \in DOMAIN payload THEN payload.sub ELSE "None"]

get_current_user(credentials, now) ==
    IF credentials = None THEN HTTPException(403, "Not authenticated")
    ELSE LET payload == verify_token(credentials, now)
         IN  IF payload = None
             THEN HTTPException(401, "Invalid authentication credentials")
             ELSE IF "sub" \notin DOMAIN payload
             THEN HTTPException(401, "Invalid authentication credentials")
             ELSE [username |-> payload.sub]

\* ------------------------------------------------------------ DTOs

MaxNameLen == 100

\* Field(..., min_length=1, max_length=100)
valid_name(name) == Len(name.str) >= 1 /\ Len(name.str) <= MaxNameLen

RequestValidationError == Response(422, "Unprocessable Entity", None)

PositionResponseDTO(position) ==
    [position_id |-> position.position_id, position_name |-> position.position_name]

\* EmployeeResponseDTO filled with the wrong name
EmployeeResponseDTO_employee_name(employee, position) ==
    [emp_id |-> employee.emp_id,
     name |-> employee.name,
     position_id |-> employee.position_id,
     position_name |-> IF position # None THEN employee.name ELSE None]

\* position is the Position entity or None
EmployeeResponseDTO(employee, position) ==
    [emp_id |-> employee.emp_id,
     name |-> employee.name,
     position_id |-> employee.position_id,
     position_name |-> IF position # None THEN position.position_name ELSE None]

\* ------------------------------------------------------------ position store

\* SQLitePositionRepository.create as INSERT OR REPLACE: a stored row of the
\* same id is overwritten
position_create_replacing(tbl, position) ==
    [tbl |-> {row \in tbl : row.position_id # UuidStr(position.position_id)}
               \cup {[position_id |-> UuidStr(position.position_id),
                      position_name |-> position.position_name]}]

\* SQLitePositionRepository.create: the table after the INSERT, or the
\* IntegrityError of the primary key
position_create(tbl, position) ==
    IF \E row \in tbl : row.position_id = UuidStr(position.position_id)
    THEN Raise("IntegrityError", "UNIQUE constraint failed: positions.position_id")
    ELSE [tbl |-> tbl \cup {[position_id |-> UuidStr(position.position_id),
                             position_name |-> position.position_name]}]

\* SQLitePositionRepository.get_by_id
position_get_by_id(tbl, position_id) ==
    IF \E row \in tbl : row.position_id = UuidStr(position_id)
    THEN LET row == CHOOSE row \in tbl : row.position_id = UuidStr(position_id)
         IN  Position(UUID(row.position_id), row.position_name)
    ELSE None

\* SQLitePositionRepository.update: the table after the UPDATE and what is
\* returned (the position when total_changes > 0)
position_update(tbl, position) ==
    LET hit == {row \in tbl : row.position_id = UuidStr(position.position_id)}
    IN  [tbl |-> (tbl \ hit) \cup
                 {[row EXCEPT !.position_name = position.position_name] : row \in hit},
         result |-> IF hit # {} THEN position ELSE None]

\* SQLitePositionRepository.delete that reports the match and keeps the row
position_delete_keeping_row(tbl, position_id) ==
    LET hit == {row \in tbl : row.position_id = UuidStr(position_id)}
    IN  [tbl |-> tbl, result |-> hit # {}]

\* SQLitePositionRepository.delete: the table after the DELETE and
\* total_changes > 0
position_delete(tbl, position_id) ==
    LET hit == {row \in tbl : row.position_id = UuidStr(position_id)}
    IN  [tbl |-> tbl \ hit, result |-> hit # {}]

\* ------------------------------------------------------------ employee store

\* SQLiteEmployeeRepository.create; the foreign key is declared and not
\* enforced (SQLite enforces none without PRAGMA foreign_keys = ON)
employee_create(tbl, employee) ==
    IF \E row \in tbl : row.emp_id = UuidStr(employee.emp_id)
    THEN Raise("IntegrityError", "UNIQUE constraint failed: employees.emp_id")
    ELSE [tbl |-> tbl \cup {[emp_id |-> UuidStr(employee.emp_id),
                             name |-> employee.name,
                             position_id |-> UuidStr(employee.position_id)]}]

\* SQLiteEmployeeRepository.get_by_id
employee_get_by_id(tbl, emp_id) ==
    IF \E row \in tbl : row.emp_id = UuidStr(emp_id)
    THEN LET row == CHOOSE row \in tbl : row.emp_id = UuidStr(emp_id)
         IN  Employee(UUID(row.emp_id), row.name, UUID(row.position_id))
    ELSE None

\* ------------------------------------------------------------ position service

\* PositionUseCase.create_position, new_id being what uuid4() returned
PositionUseCase_create_position(tbl, position_name, new_id) ==
    LET position == Position(new_id, position_name)
        created == position_create(tbl, position)
    IN  IF IsExc(position) THEN [tbl |-> tbl, result |-> position]
        ELSE IF IsExc(created) THEN [tbl |-> tbl, result |-> created]
        ELSE [tbl |-> created.tbl, result |-> PositionResponseDTO(position)]

\* PositionUseCase.get_position
PositionUseCase_get_position(tbl, position_id) ==
    LET position == position_get_by_id(tbl, position_id)
    IN  IF position = None \/ IsExc(position) THEN position
        ELSE PositionResponseDTO(position)

\* PositionUseCase.update_position from its UPDATE on; position is the entity
\* read before, its name already overwritten
PositionUseCase_update_position(tbl, position) ==
    LET updated == position_update(tbl, position)
    IN  [tbl |-> updated.tbl,
         result |-> IF updated.result = None THEN None
                    ELSE PositionResponseDTO(updated.result)]

\* POST /positions/
create_position(p, credentials, position_name, new_id) ==
    /\ pc[p] = "idle"
    /\ req' = [req EXCEPT ![p] = [op |-> "create_position", credentials |-> credentials,
                                  position_name |-> position_name]]
    /\ LET current_user == get_current_user(credentials, clock)
           out == PositionUseCase_create_position(positions, position_name, new_id)
       IN  IF IsResponse(current_user)
           THEN /\ Finish(p, current_user)
                /\ Touch(p, TRUE, {}, {})
                /\ UNCHANGED positions
           ELSE IF ~valid_name(position_name)
           THEN /\ Finish(p, RequestValidationError)
                /\ Touch(p, TRUE, {}, {})
                /\ UNCHANGED positions
           ELSE /\ positions' = out.tbl
                /\ Finish(p, Uncaught(out.result, Response(201, "", out.result)))
                /\ Touch(p, TRUE, IF IsExc(out.result) THEN {} ELSE {new_id}, {})
    /\ UNCHANGED <<bcrypt_version, tables, startups, users, employees, clock, issued,
                   registered>>

\* GET /positions/{position_id}
get_position(p, credentials, position_id) ==
    /\ pc[p] = "idle"
    /\ req' = [req EXCEPT ![p] = [op |-> "get_position", credentials |-> credentials,
                                  position_id |-> position_id]]
    /\ LET current_user == get_current_user(credentials, clock)
           position == PositionUseCase_get_position(positions, position_id)
       IN  Finish(p, IF IsResponse(current_user) THEN current_user
                     ELSE IF position = None
                     THEN HTTPException(404, "Position not found")
                     ELSE Uncaught(position, Response(200, "", position)))
    /\ Touch(p, TRUE, {}, {})
    /\ UNCHANGED <<bcrypt_version, tables, startups, users, positions, employees, clock,
                   issued, registered>>

\* PUT /positions/{position_id} up to the UPDATE: the position is read and
\* its name overwritten in memory
update_position(p, credentials, position_id, position_name) ==
    /\ pc[p] = "idle"
    /\ req' = [req EXCEPT ![p] = [op |-> "update_position", credentials |-> credentials,
                                  position_id |-> position_id,
                                  position_name |-> position_name]]
    /\ LET current_user == get_current_user(credentials, clock)
           position == position_get_by_id(positions, position_id)
       IN  IF IsResponse(current_user) THEN Finish(p, current_user)
           ELSE IF ~valid_name(position_name) THEN Finish(p, RequestValidationError)
           ELSE IF position = None
           THEN Finish(p, HTTPException(404, "Position not found"))
           ELSE IF IsExc(position) THEN Finish(p, InternalServerError)
           ELSE Goto(p, "position_update",
                     [position |-> [position EXCEPT !.position_name = position_name]])
    /\ Touch(p, TRUE, {}, {})
    /\ UNCHANGED <<bcrypt_version, tables, startups, users, positions, employees, clock,
                   issued, registered>>

\* PUT /positions/{position_id} from the UPDATE on
update_position_update(p) ==
    /\ pc[p] = "position_update"
    /\ LET out == PositionUseCase_update_position(positions, local[p].position)
       IN  /\ positions' = out.tbl
           /\ Finish(p, IF out.result = None
                        THEN HTTPException(404, "Position not found")
                        ELSE Response(200, "", out.result))
           /\ Touch(p, FALSE,
                    IF out.result = None THEN {} ELSE {local[p].position.position_id}, {})
    /\ UNCHANGED <<bcrypt_version, tables, startups, users, employees, clock, issued,
                   registered, req>>

\* DELETE /positions/{position_id} under ON DELETE CASCADE
delete_position_cascade(p, credentials, position_id) ==
    /\ pc[p] = "idle"
    /\ req' = [req EXCEPT ![p] = [op |-> "delete_position", credentials |-> credentials,
                                  position_id |-> position_id]]
    /\ LET current_user == get_current_user(credentials, clock)
           out == position_delete(positions, position_id)
       IN  IF IsResponse(current_user)
           THEN /\ Finish(p, current_user)
                /\ Touch(p, TRUE, {}, {})
                /\ UNCHANGED <<positions, employees>>
           ELSE /\ positions' = out.tbl
                /\ employees' = {row \in employees :
                                   row.position_id # UuidStr(position_id)}
                /\ Finish(p, IF out.result THEN Response(204, "", None)
                             ELSE HTTPException(404, "Position not found"))
                /\ Touch(p, TRUE, IF out.result THEN {position_id} ELSE {}, {})
    /\ UNCHANGED <<bcrypt_version, tables, startups, users, clock, issued, registered>>

\* DELETE /positions/{position_id}
delete_position(p, credentials, position_id) ==
    /\ pc[p] = "idle"
    /\ req' = [req EXCEPT ![p] = [op |-> "delete_position", credentials |-> credentials,
                                  position_id |-> position_id]]
    /\ LET current_user == get_current_user(credentials, clock)
           out == position_delete(positions, position_id)
       IN  IF IsResponse(current_user)
           THEN /\ Finish(p, current_user)
                /\ Touch(p, TRUE, {}, {})
                /\ UNCHANGED positions
           ELSE /\ positions' = out.tbl
                /\ Finish(p, IF out.result THEN Response(204, "", None)
                             ELSE HTTPException(404, "Position not found"))
                /\ Touch(p, TRUE, IF out.result THEN {position_id} ELSE {}, {})
    /\ UNCHANGED <<bcrypt_version, tables, startups, users, employees, clock, issued,
                   registered>>

\* ------------------------------------------------------------ employee service

\* the controller's "except ValueError": status 400 with the message
BadRequest(result, otherwise) ==
    IF IsExc(result) /\ result.exc = "ValueError"
    THEN HTTPException(400, result.msg)
    ELSE Uncaught(result, otherwise)

\* create_employee without its "if not position" check: the DTO's id is used
create_employee_position_unchecked(tbl, position_id) ==
    LET position == position_get_by_id(tbl, position_id)
    IN  IF position = None
        THEN [position_id |-> position_id, position_name |-> Empty]
        ELSE position

\* EmployeeUseCase.create_employee up to its INSERT: the position the DTO
\* names is looked up
create_employee_position(tbl, position_id) ==
    LET position == position_get_by_id(tbl, position_id)
    IN  IF position = None THEN Raise("ValueError", "Position not found")
        ELSE position

\* EmployeeUseCase.create_employee from its INSERT on, position being the
\* entity looked up before and new_id what uuid4() returned
EmployeeUseCase_create_employee(tbl, name, position, new_id) ==
    LET employee == Employee(new_id, name, position.position_id)
        created == employee_create(tbl, employee)
    IN  IF IsExc(employee) THEN [tbl |-> tbl, result |-> employee]
        ELSE IF IsExc(created) THEN [tbl |-> tbl, result |-> created]
        ELSE [tbl |-> created.tbl, result |-> EmployeeResponseDTO(employee, position)]

\* get_employee without the enrichment
EmployeeUseCase_get_employee_unenriched(tbl, employee) ==
    EmployeeResponseDTO(employee, None)

\* EmployeeUseCase.get_employee that fails when the position is missing
EmployeeUseCase_get_employee_strict(tbl, employee) ==
    LET position == position_get_by_id(tbl, employee.position_id)
    IN  IF IsExc(position) THEN position
        ELSE IF position = None THEN Raise("ValueError", "Position not found")
        ELSE EmployeeResponseDTO(employee, position)

\* EmployeeUseCase.get_employee from its position lookup on
EmployeeUseCase_get_employee(tbl, employee) ==
    LET position == position_get_by_id(tbl, employee.position_id)
    IN  IF IsExc(position) THEN position
        ELSE EmployeeResponseDTO(employee, position)

\* POST /employees/ up to the INSERT
create_employee(p, credentials, name, position_id) ==
    /\ pc[p] = "idle"
    /\ req' = [req EXCEPT ![p] = [op |-> "create_employee", credentials |-> credentials,
                                  name |-> name, position_id |-> position_id]]
    /\ LET current_user == get_current_user(credentials, clock)
           position == create_employee_position(positions, position_id)
       IN  IF IsResponse(current_user) THEN Finish(p, current_user)
           ELSE IF ~valid_name(name) THEN Finish(p, RequestValidationError)
           ELSE IF IsExc(position) THEN Finish(p, BadRequest(position, None))
           ELSE Goto(p, "employee_create", [position |-> position])
    /\ Touch(p, TRUE, {}, {})
    /\ UNCHANGED <<bcrypt_version, tables, startups, users, positions, employees, clock,
                   issued, registered>>

\* POST /employees/ from the INSERT on
create_employee_insert(p, new_id) ==
    /\ pc[p] = "employee_create"
    /\ LET out == EmployeeUseCase_create_employee(employees, req[p].name,
                                                  local[p].position, new_id)
       IN  /\ employees' = out.tbl
           /\ Finish(p, BadRequest(out.result, Response(201, "", out.result)))
           /\ Touch(p, FALSE, {}, IF IsExc(out.result) THEN {} ELSE {new_id})
    /\ UNCHANGED <<bcrypt_version, tables, startups, users, positions, clock, issued,
                   registered, req>>

\* GET /employees/{emp_id} up to the position lookup
get_employee(p, credentials, emp_id) ==
    /\ pc[p] = "idle"
    /\ req' = [req EXCEPT ![p] = [op |-> "get_employee", credentials |-> credentials,
                                  emp_id |-> emp_id]]
    /\ LET current_user == get_current_user(credentials, clock)
           employee == employee_get_by_id(employees, emp_id)
       IN  IF IsResponse(current_user) THEN Finish(p, current_user)
           ELSE IF employee = None
           THEN Finish(p, HTTPException(404, "Employee not found"))
           ELSE IF IsExc(employee) THEN Finish(p, InternalServerError)
           ELSE Goto(p, "get_employee_position", [employee |-> employee])
    /\ Touch(p, TRUE, {}, {})
    /\ UNCHANGED <<bcrypt_version, tables, startups, users, positions, employees, clock,
                   issued, registered>>

\* GET /employees/{emp_id} from the position lookup on
get_employee_position(p) ==
    /\ pc[p] = "get_employee_position"
    /\ LET employee == EmployeeUseCase_get_employee(positions, local[p].employee)
       IN  Finish(p, Uncaught(employee, Response(200, "", employee)))
    /\ UNCHANGED <<bcrypt_version, tables, startups, users, positions, employees, clock,
                   issued, registered, req, touched>>

\* ------------------------------------------------------------ lists, employee update and delete

\* SQLitePositionRepository.get_all: the entities of all rows (a list, its
\* order left open), or the ValueError of an entity that cannot be built
position_get_all(tbl) ==
    LET built == {position_get_by_id(tbl, UUID(row.position_id)) : row \in tbl}
    IN  IF \E e \in built : IsExc(e) THEN CHOOSE e \in built : IsExc(e)
        ELSE [items |-> built]

\* SQLiteEmployeeRepository.get_all reading one row only (SELECT ... LIMIT 1)
employee_get_all_first(tbl) ==
    IF tbl = {} THEN [items |-> {}]
    ELSE LET e == employee_get_by_id(tbl, UUID((CHOOSE row \in tbl : TRUE).emp_id))
         IN  IF IsExc(e) THEN e ELSE [items |-> {e}]

\* SQLiteEmployeeRepository.get_all
employee_get_all(tbl) ==
    LET built == {employee_get_by_id(tbl, UUID(row.emp_id)) : row \in tbl}
    IN  IF \E e \in built : IsExc(e) THEN CHOOSE e \in built : IsExc(e)
        ELSE [items |-> built]

\* SQLiteEmployeeRepository.update as INSERT OR REPLACE: a missing row is
\* created
employee_update_upsert(tbl, employee) ==
    LET hit == {row \in tbl : row.emp_id = UuidStr(employee.emp_id)}
    IN  [tbl |-> (tbl \ hit) \cup
                 {[emp_id |-> UuidStr(employee.emp_id), name |-> employee.name,
                   position_id |-> UuidStr(employee.position_id)]},
         result |-> employee]

\* SQLiteEmployeeRepository.update: the table after the UPDATE and what is
\* returned (the employee when total_changes > 0)
employee_update(tbl, employee) ==
    LET hit == {row \in tbl : row.emp_id = UuidStr(employee.emp_id)}
    IN  [tbl |-> (tbl \ hit) \cup
                 {[row EXCEPT !.name = employee.name,
                              !.position_id = UuidStr(employee.position_id)] :
                    row \in hit},
         result |-> IF hit # {} THEN employee ELSE None]

\* SQLiteEmployeeRepository.delete that returns True whatever it deleted
employee_delete_always_true(tbl, emp_id) ==
    LET hit == {row \in tbl : row.emp_id = UuidStr(emp_id)}
    IN  [tbl |-> tbl \ hit, result |-> TRUE]

\* SQLiteEmployeeRepository.delete: the table after the DELETE and
\* total_changes > 0
employee_delete(tbl, emp_id) ==
    LET hit == {row \in tbl : row.emp_id = UuidStr(emp_id)}
    IN  [tbl |-> tbl \ hit, result |-> hit # {}]

\* PositionUseCase.get_all_positions
PositionUseCase_get_all_positions(tbl) ==
    LET all == position_get_all(tbl)
    IN  IF IsExc(all) THEN all
        ELSE [items |-> {PositionResponseDTO(position) : position \in all.items}]

\* GET /positions/
get_all_positions(p, credentials) ==
    /\ pc[p] = "idle"
    /\ req' = [req EXCEPT ![p] = [op |-> "get_all_positions",
                                  credentials |-> credentials]]
    /\ LET current_user == get_current_user(credentials, clock)
           all == PositionUseCase_get_all_positions(positions)
       IN  Finish(p, IF IsResponse(current_user) THEN current_user
                     ELSE Uncaught(all, Response(200, "", all)))
    /\ Touch(p, TRUE, {}, {})
    /\ UNCHANGED <<bcrypt_version, tables, startups, users, positions, employees, clock,
                   issued, registered>>

\* GET /employees/ up to the first position lookup: the employees are read
get_all_employees(p, credentials) ==
    /\ pc[p] = "idle"
    /\ req' = [req EXCEPT ![p] = [op |-> "get_all_employees",
                                  credentials |-> credentials]]
    /\ LET current_user == get_current_user(credentials, clock)
           all == employee_get_all(employees)
       IN  IF IsResponse(current_user) THEN Finish(p, current_user)
           ELSE IF IsExc(all) THEN Finish(p, InternalServerError)
           ELSE IF all.items = {} THEN Finish(p, Response(200, "", [items |-> {}]))
           ELSE Goto(p, "get_all_employees_position",
                     [todo |-> all.items, result |-> {}])
    /\ Touch(p, TRUE, {}, {})
    /\ UNCHANGED <<bcrypt_version, tables, startups, users, positions, employees, clock,
                   issued, registered>>

\* GET /employees/, one turn of the loop: the position of the next employee
\* is looked up and the employee appended to the result
get_all_employees_position(p) ==
    /\ pc[p] = "get_all_employees_position"
    /\ \E employee \in local[p].todo :
          LET enriched == EmployeeUseCase_get_employee(positions, employee)
              todo == local[p].todo \ {employee}
              result == local[p].result \cup {enriched}
          IN  IF IsExc(enriched) THEN Finish(p, InternalServerError)
              ELSE IF todo = {} THEN Finish(p, Response(200, "", [items |-> result]))
              ELSE Goto(p, "get_all_employees_position",
                        [todo |-> todo, result |-> result])
    /\ UNCHANGED <<bcrypt_version, tables, startups, users, positions, employees, clock,
                   issued, registered, req, touched>>

\* EmployeeUpdateDTO: a record of the fields the body sets; a field that is
\* absent or null reads as None
EmployeeUpdateDTO_name(dto) == IF "name" \in DOMAIN dto THEN dto.name ELSE None

\* Field(None, min_length=1, max_length=100) of EmployeeUpdateDTO
valid_optional_name(name) == name = None \/ valid_name(name)

\* "if dto.name:": None and the empty string are falsy
truthy(value) == value # None /\ value # Empty

\* EmployeeUseCase.update_employee without the assignment of the name
update_employee_name_dropped(employee, name) == employee

\* EmployeeUseCase.update_employee, "if dto.name: employee.name = dto.name":
\* the attribute is assigned and __post_init__ does not run again
update_employee_name(employee, name) ==
    IF truthy(name) THEN [employee EXCEPT !.name = name] ELSE employee

\* PUT /employees/{emp_id} up to the second store call: the employee is read
update_employee(p, credentials, emp_id, dto) ==
    /\ pc[p] = "idle"
    /\ req' = [req EXCEPT ![p] = dto @@ [op |-> "update_employee",
                                         credentials |-> credentials,
                                         emp_id |-> emp_id]]
    /\ LET current_user == get_current_user(credentials, clock)
           employee == employee_get_by_id(employees, emp_id)
           name == EmployeeUpdateDTO_name(dto)
       IN  IF IsResponse(current_user) THEN Finish(p, current_user)
           ELSE IF ~valid_optional_name(name) THEN Finish(p, RequestValidationError)
           ELSE IF employee = None
           THEN Finish(p, HTTPException(404, "Employee not found"))
           ELSE IF IsExc(employee) THEN Finish(p, BadRequest(employee, None))
           ELSE IF "position_id" \in DOMAIN dto
           THEN Goto(p, "update_employee_position", [employee |-> employee])
           ELSE Goto(p, "employee_update",
                     [employee |-> update_employee_name(employee, name)])
    /\ Touch(p, TRUE, {}, {})
    /\ UNCHANGED <<bcrypt_version, tables, startups, users, positions, employees, clock,
                   issued, registered>>

\* PUT /employees/{emp_id} without the lookup of the position
update_employee_position_unchecked(p) ==
    /\ pc[p] = "update_employee_position"
    /\ LET employee == [local[p].employee EXCEPT !.position_id = req[p].position_id]
       IN  Goto(p, "employee_update",
                [employee |-> update_employee_name(employee,
                                                   EmployeeUpdateDTO_name(req[p]))])
    /\ UNCHANGED <<bcrypt_version, tables, startups, users, positions, employees, clock,
                   issued, registered, req, touched>>

\* PUT /employees/{emp_id}, the lookup of the position the patch names
update_employee_position(p) ==
    /\ pc[p] = "update_employee_position"
    /\ LET position == create_employee_position(positions, req[p].position_id)
           employee == [local[p].employee EXCEPT !.position_id = req[p].position_id]
       IN  IF IsExc(position) THEN Finish(p, BadRequest(position, None))
           ELSE Goto(p, "employee_update",
                     [employee |-> update_employee_name(employee,
                                                        EmployeeUpdateDTO_name(req[p]))])
    /\ UNCHANGED <<bcrypt_version, tables, startups, users, positions, employees, clock,
                   issued, registered, req, touched>>

\* PUT /employees/{emp_id}, the UPDATE
update_employee_update(p) ==
    /\ pc[p] = "employee_update"
    /\ LET updated == employee_update(employees, local[p].employee)
       IN  /\ employees' = updated.tbl
           /\ IF updated.result = None
              THEN Finish(p, HTTPException(404, "Employee not found"))
              ELSE Goto(p, "update_employee_enrich", [employee |-> updated.result])
           /\ Touch(p, FALSE, {},
                    IF updated.result = None THEN {} ELSE {local[p].employee.emp_id})
    /\ UNCHANGED <<bcrypt_version, tables, startups, users, positions, clock, issued,
                   registered, req>>

\* PUT /employees/{emp_id}, the position lookup of the response
update_employee_enrich(p) ==
    /\ pc[p] = "update_employee_enrich"
    /\ LET employee == EmployeeUseCase_get_employee(positions, local[p].employee)
       IN  Finish(p, BadRequest(employee, Response(200, "", employee)))
    /\ UNCHANGED <<bcrypt_version, tables, startups, users, positions, employees, clock,
                   issued, registered, req, touched>>

\* DELETE /employees/{emp_id} without Depends(get_current_user)
delete_employee_unguarded(p, credentials, emp_id) ==
    /\ pc[p] = "idle"
    /\ req' = [req EXCEPT ![p] = [op |-> "delete_employee", credentials |-> credentials,
                                  emp_id |-> emp_id]]
    /\ LET out == employee_delete(employees, emp_id)
       IN  /\ employees' = out.tbl
           /\ Finish(p, IF out.result THEN Response(204, "", None)
                        ELSE HTTPException(404, "Employee not found"))
           /\ Touch(p, TRUE, {}, IF out.result THEN {emp_id} ELSE {})
    /\ UNCHANGED <<bcrypt_version, tables, startups, users, positions, clock, issued,
                   registered>>

\* DELETE /employees/{emp_id}
delete_employee(p, credentials, emp_id) ==
    /\ pc[p] = "idle"
    /\ req' = [req EXCEPT ![p] = [op |-> "delete_employee", credentials |-> credentials,
                                  emp_id |-> emp_id]]
    /\ LET current_user == get_current_user(credentials, clock)
           out == employee_delete(employees, emp_id)
       IN  IF IsResponse(current_user)
           THEN /\ Finish(p, current_user)
                /\ Touch(p, TRUE, {}, {})
                /\ UNCHANGED employees
           ELSE /\ employees' = out.tbl
                /\ Finish(p, IF out.result THEN Response(204, "", None)
                             ELSE HTTPException(404, "Employee not found"))
                /\ Touch(p, TRUE, {}, IF out.result THEN {emp_id} ELSE {})
    /\ UNCHANGED <<bcrypt_version, tables, startups, users, positions, clock, issued,
                   registered>>

\* ------------------------------------------------------------ token issue

\* the tokens a direct caller of the token service is followed for
MaxIssued == 2

\* a call of JWTService.create_access_token from outside the login
\* endpoint, with a lifetime or with none (None)
issue(subject, expires_delta) ==
    /\ Cardinality(issued) < MaxIssued
    /\ issued' = issued \cup {create_access_token([sub |-> subject], expires_delta, clock)}
    /\ UNCHANGED <<bcrypt_version, tables, startups, users, positions, employees, clock,
                   pc, req, local, resp, registered, touched>>

\* ------------------------------------------------------------ startup

\* the database file: the content of each table it has
Database == [name \in tables |-> CASE name = "positions" -> positions
                                   [] name = "employees" -> employees
                                   [] name = "users" -> users]

\* DROP TABLE IF EXISTS followed by CREATE TABLE
create_table_replacing(db, name, empty) ==
    [t \in DOMAIN db \cup {name} |-> IF t = name THEN empty ELSE db[t]]

\* CREATE TABLE IF NOT EXISTS: a table the file has is left alone, a
\* missing one is created without rows
create_table_if_not_exists(db, name, empty) ==
    IF name \in DOMAIN db THEN db ELSE db @@ (name :> empty)

\* DatabaseConnection.initialize: the three CREATE TABLE IF NOT EXISTS
DatabaseConnection_initialize(db) ==
    create_table_if_not_exists(
        create_table_if_not_exists(
            create_table_if_not_exists(db, "positions", {}),
            "employees", {}),
        "users", <<>>)

\* lifespan startup (and the test fixtures): initialize runs on the file
initialize ==
    /\ \A p \in Procs : pc[p] = "idle"
    /\ startups' = startups \cup
                     {IF tables = {} THEN "new"
                      ELSE IF positions # {} /\ employees # {} /\ users # <<>>
                      THEN "filled" ELSE "other"}
    /\ LET db == DatabaseConnection_initialize(Database)
       IN  /\ tables' = DOMAIN db
           /\ positions' = db["positions"]
           /\ employees' = db["employees"]
           /\ users' = db["users"]
    /\ UNCHANGED <<bcrypt_version, clock, issued, pc, req, local, resp, registered,
                   touched>>

\* ------------------------------------------------------------ time

\* the longest run of the clock
MaxClock == 26

\* time passes
Tick(hours) ==
    /\ clock + hours <= MaxClock
    /\ clock' = clock + hours
    /\ UNCHANGED <<bcrypt_version, tables, startups, users, positions, employees,
                   issued, pc, req, local, resp, registered, touched>>

\* ------------------------------------------------------------ specifications

\* what a client may send as its bearer token: nothing, a token login
\* handed out, or one signed with another key
Forged == jwt_encode([sub |-> "alice", exp |-> MaxClock], OtherKey, "HS256")

Credentials == issued \cup {None, Forged}

Ids == Uuid4Values

\* what registration and login are called with
AuthInputs ==
    {<<"alice", Secret1>>, <<"alice", LongB>>, <<"alice", LongC>>, <<"bob", Secret1>>}

\* Requests 1 and 2 register and log in concurrently.
AuthNext ==
    \/ \E p \in Procs, i \in AuthInputs : register(p, i[1], i[2])
    \/ \E p \in Procs, salt \in Salts : register_hash(p, salt)
    \/ \E p \in Procs : register_insert(p)
    \/ \E p \in Procs, i \in AuthInputs : login(p, i[1], i[2])

SpecAuth == Init /\ [][AuthNext]_vars

\* Request 1 registers and logs in as time passes; request 2 presents what
\* credentials it has to the position and employee routes.
TokenNext ==
    \/ register(1, "alice", Secret1)
    \/ \E salt \in Salts : register_hash(1, salt)
    \/ register_insert(1)
    \/ \E pw \in {Secret1, Secret2} : login(1, "alice", pw)
    \/ \E hours \in {DefaultTTL \div 2, DefaultTTL \div 2 + 1} : Tick(hours)
    \/ \E c \in Credentials : create_position(2, c, Engineer, 1)
    \/ \E c \in Credentials : get_position(2, c, 1)
    \/ \E c \in Credentials : delete_position(2, c, 1)
    \/ \E c \in Credentials : create_employee(2, c, Engineer, 1)
    \/ create_employee_insert(2, 1)

SpecToken == Init /\ [][TokenNext]_vars

\* Requests 1 and 2 run concurrently.  Request 1 registers, logs in and
\* creates positions and employees; request 2 reads, updates and deletes.
CrudNext ==
    \/ register(1, "alice", Secret1)
    \/ \E salt \in Salts : register_hash(1, salt)
    \/ register_insert(1)
    \/ login(1, "alice", Secret1)
    \/ \E c \in issued, id \in Ids : create_position(1, c, Engineer, id)
    \/ \E c \in issued, n \in {Engineer}, id \in Ids : create_employee(1, c, n, id)
    \/ \E id \in Ids : create_employee_insert(1, id)
    \/ \E c \in issued, id \in Ids : get_position(2, c, id)
    \/ \E c \in issued, n \in {Engineer, Manager}, id \in Ids :
          update_position(2, c, id, n)
    \/ update_position_update(2)
    \/ \E c \in issued, id \in Ids : delete_position(2, c, id)
    \/ \E c \in issued, id \in Ids : get_employee(2, c, id)
    \/ get_employee_position(2)

SpecCrud == Init /\ [][CrudNext]_vars

\* a token the service key signs that carries no subject claim
NoSubject == jwt_encode([exp |-> MaxClock], SECRET_KEY, "HS256")

\* the bodies of PUT /employees/{emp_id}: each field set or left out
EmployeeUpdateDTOs(names, ids) ==
    {<<>>} \cup {[name |-> n] : n \in names} \cup {[position_id |-> i] : i \in ids}
      \cup {[name |-> n, position_id |-> i] : n \in names, i \in ids}

GuardCredentials == Credentials \cup {NoSubject}

\* every protected operation under every kind of credential: one client
\* registers, logs in and lets time pass, the other calls the operations
GuardNext ==
    \/ register(1, "alice", Secret1)
    \/ \E salt \in Salts : register_hash(1, salt)
    \/ register_insert(1)
    \/ login(1, "alice", Secret1)
    \/ Tick(DefaultTTL + 1)
    \/ \E c \in GuardCredentials : create_position(2, c, Engineer, 1)
    \/ \E c \in GuardCredentials : get_position(2, c, 1)
    \/ \E c \in GuardCredentials : get_all_positions(2, c)
    \/ \E c \in GuardCredentials : update_position(2, c, 1, Manager)
    \/ \E c \in GuardCredentials : delete_position(2, c, 1)
    \/ \E c \in GuardCredentials : create_employee(2, c, Engineer, 1)
    \/ \E c \in GuardCredentials : get_employee(2, c, 1)
    \/ \E c \in GuardCredentials : get_all_employees(2, c)
    \/ \E c \in GuardCredentials :
          update_employee(2, c, 1, [name |-> Manager, position_id |-> 1])
    \/ \E c \in GuardCredentials : delete_employee(2, c, 1)
    \/ update_position_update(2)
    \/ create_employee_insert(2, 1)
    \/ get_employee_position(2)
    \/ get_all_employees_position(2)
    \/ update_employee_position(2)
    \/ update_employee_update(2)
    \/ update_employee_enrich(2)

SpecGuard == Init /\ [][GuardNext]_vars

\* employees and the positions they refer to: one client registers, logs
\* in, creates positions and employees and deletes employees, the other
\* deletes positions and reads employees
RefsNext ==
    \/ register(1, "alice", Secret1)
    \/ \E salt \in Salts : register_hash(1, salt)
    \/ register_insert(1)
    \/ login(1, "alice", Secret1)
    \/ \E c \in issued, id \in Ids : create_position(1, c, Engineer, id)
    \/ \E c \in issued, id \in Ids : create_employee(1, c, Engineer, id)
    \/ \E id \in Ids : create_employee_insert(1, id)
    \/ \E c \in issued, id \in Ids : delete_employee(1, c, id)
    \/ \E c \in issued, id \in Ids : delete_position(2, c, id)
    \/ \E c \in issued, id \in Ids : get_employee(2, c, id)
    \/ get_employee_position(2)
    \/ \E c \in issued : get_all_employees(2, c)
    \/ get_all_employees_position(2)

SpecRefs == Init /\ [][RefsNext]_vars

\* the names a request body may carry: accepted, whitespace only, empty
Names == {Manager, Blank, Empty}

\* names under create and update: one client registers, logs in and
\* creates, the other updates and reads
NamesNext ==
    \/ register(1, "alice", Secret1)
    \/ \E salt \in Salts : register_hash(1, salt)
    \/ register_insert(1)
    \/ login(1, "alice", Secret1)
    \/ \E c \in issued, n \in {Engineer, Blank, Empty} : create_position(1, c, n, 1)
    \/ \E c \in issued, n \in {Engineer, Blank, Empty}, id \in Ids :
          create_employee(1, c, n, id)
    \/ create_employee_insert(1, 1)
    \/ \E c \in issued, n \in Names : update_position(2, c, 1, n)
    \/ update_position_update(2)
    \/ \E c \in issued, dto \in EmployeeUpdateDTOs(Names, Ids) :
          update_employee(2, c, 1, dto)
    \/ update_employee_position(2)
    \/ update_employee_update(2)
    \/ update_employee_enrich(2)
    \/ \E c \in issued : get_position(2, c, 1)
    \/ \E c \in issued : get_employee(2, c, 1)
    \/ get_employee_position(2)

SpecNames == Init /\ [][NamesNext]_vars

\* patches of one employee by two clients: one registers, logs in, creates
\* and patches the name, the other patches the position, updates positions
\* and deletes the employee
PatchNext ==
    \/ register(1, "alice", Secret1)
    \/ \E salt \in Salts : register_hash(1, salt)
    \/ register_insert(1)
    \/ login(1, "alice", Secret1)
    \/ \E c \in issued, id \in Ids : create_position(1, c, Engineer, id)
    \/ \E c \in issued : create_employee(1, c, Engineer, 1)
    \/ create_employee_insert(1, 1)
    \/ \E c \in issued, id \in Ids : update_employee(1, c, id, [name |-> Manager])
    \/ update_employee_position(1)
    \/ update_employee_update(1)
    \/ update_employee_enrich(1)
    \/ \E c \in issued, id \in Ids, dto \in EmployeeUpdateDTOs({Manager}, Ids) :
          update_employee(2, c, id, dto)
    \/ update_employee_position(2)
    \/ update_employee_update(2)
    \/ update_employee_enrich(2)
    \/ \E c \in issued, id \in Ids : update_position(2, c, id, Manager)
    \/ update_position_update(2)
    \/ \E c \in issued : delete_employee(2, c, 1)

SpecPatch == Init /\ [][PatchNext]_vars

\* deletes by two clients: one registers, logs in, creates and deletes,
\* the other deletes and reads
DeleteNext ==
    \/ register(1, "alice", Secret1)
    \/ \E salt \in Salts : register_hash(1, salt)
    \/ register_insert(1)
    \/ login(1, "alice", Secret1)
    \/ \E c \in issued, id \in Ids : create_position(1, c, Engineer, id)
    \/ \E c \in issued : create_employee(1, c, Engineer, 1)
    \/ \E id \in Ids : create_employee_insert(1, id)
    \/ \E c \in issued, id \in Ids : delete_position(1, c, id)
    \/ \E c \in issued, id \in Ids : delete_employee(1, c, id)
    \/ \E c \in issued, id \in Ids : delete_position(2, c, id)
    \/ \E c \in issued, id \in Ids : delete_employee(2, c, id)
    \/ \E c \in issued, id \in Ids : get_position(2, c, id)
    \/ \E c \in issued, id \in Ids : get_employee(2, c, id)
    \/ get_employee_position(2)

SpecDelete == Init /\ [][DeleteNext]_vars

\* a database file that is new: it has no table
InitNewFile ==
    /\ bcrypt_version \in BcryptVersions
    /\ tables = {}
    /\ startups = {}
    /\ users = <<>> /\ positions = {} /\ employees = {}
    /\ clock = 0 /\ issued = {}
    /\ pc = [p \in Procs |-> "idle"]
    /\ req = [p \in Procs |-> None]
    /\ local = [p \in Procs |-> None]
    /\ resp = [p \in Procs |-> None]
    /\ registered = [u \in Usernames |-> None]
    /\ touched = [p \in Procs |-> [call |-> FALSE, ret |-> FALSE, with |-> {},
                                    free |-> FALSE]]

\* the application is serving: startup has created the tables
Serving == tables = TableNames

\* startup on a new file, requests that fill the tables, and startup again
\* (a restart, or a test fixture that initializes once more)
StartupNext ==
    \/ initialize
    \/ Serving /\ register(1, "alice", Secret1)
    \/ Serving /\ \E salt \in Salts : register_hash(1, salt)
    \/ Serving /\ register_insert(1)
    \/ Serving /\ login(1, "alice", Secret1)
    \/ Serving /\ \E c \in issued, id \in Ids : create_position(2, c, Engineer, id)
    \/ Serving /\ \E c \in issued, id \in Ids : create_employee(2, c, Engineer, id)
    \/ Serving /\ \E id \in Ids : create_employee_insert(2, id)

SpecStartup == InitNewFile /\ [][StartupNext]_vars

\* the lifetimes passed to create_access_token: none, zero, and lifetimes
\* below, at and above the default
Lifetimes == {None, timedelta(0), timedelta(1), timedelta(DefaultTTL \div 2),
              timedelta(DefaultTTL), timedelta(DefaultTTL + 1)}

\* tokens issued with every lifetime, at several times, and shown to a
\* protected operation
IssueNext ==
    \/ \E ttl \in Lifetimes : issue("alice", ttl)
    \/ Tick(DefaultTTL \div 2)
    \/ \E c \in issued : get_position(1, c, 1)

SpecIssue == Init /\ [][IssueNext]_vars

\* position names read through employees: one client registers, logs in,
\* creates a position and an employee and renames or deletes the position,
\* the other reads the employee and the list
EnrichNext ==
    \/ register(1, "alice", Secret1)
    \/ \E salt \in Salts : register_hash(1, salt)
    \/ register_insert(1)
    \/ login(1, "alice", Secret1)
    \/ \E c \in issued, id \in Ids : create_position(1, c, Engineer, id)
    \/ \E c \in issued, id \in Ids : create_employee(1, c, Engineer, id)
    \/ \E id \in Ids : create_employee_insert(1, id)
    \/ \E c \in issued, n \in {Manager, Blank} : update_position(1, c, 1, n)
    \/ update_position_update(1)
    \/ \E c \in issued : delete_position(1, c, 1)
    \/ \E c \in issued : get_position(2, c, 1)
    \/ \E c \in issued : get_all_positions(2, c)
    \/ \E c \in issued, id \in Ids : get_employee(2, c, id)
    \/ get_employee_position(2)
    \/ \E c \in issued : get_all_employees(2, c)
    \/ get_all_employees_position(2)

SpecEnrich == Init /\ [][EnrichNext]_vars

\* lists with no write interleaved: the writing client acts only while the
\* reading client has no request running
Quiet == pc[2] = "idle"

ListNext ==
    \/ register(1, "alice", Secret1)
    \/ \E salt \in Salts : register_hash(1, salt)
    \/ register_insert(1)
    \/ login(1, "alice", Secret1)
    \/ Quiet /\ \E c \in issued, id \in Ids : create_position(1, c, Engineer, id)
    \/ Quiet /\ \E c \in issued, id \in Ids : create_employee(1, c, Engineer, id)
    \/ Quiet /\ \E id \in Ids : create_employee_insert(1, id)
    \/ Quiet /\ \E c \in issued, n \in {Manager, Blank} : update_position(1, c, 1, n)
    \/ Quiet /\ update_position_update(1)
    \/ Quiet /\ \E c \in issued : delete_position(1, c, 1)
    \/ \E c \in issued : get_all_positions(2, c)
    \/ \E c \in issued, id \in Ids : get_employee(2, c, id)
    \/ get_employee_position(2)
    \/ \E c \in issued : get_all_employees(2, c)
    \/ get_all_employees_position(2)

SpecList == Init /\ [][ListNext]_vars

\* ------------------------------------------------------------ properties

\* all the values a request may be given
AllCredentials == issued \cup {None, Forged}
AllNames == {Engineer, Manager, Blank, Empty}

Authenticated(credentials) == ~IsResponse(get_current_user(credentials, clock))

\* the name stored for a position id, None when no row has the id
StoredPositionName(tbl, position_id) ==
    IF \E row \in tbl : row.position_id = UuidStr(position_id)
    THEN (CHOOSE row \in tbl : row.position_id = UuidStr(position_id)).position_name
    ELSE None

\* request p is over and was answered with this status to this operation
Answered(p, op, status) ==
    /\ pc[p] = "idle"
    /\ req[p] # None /\ req[p].op = op
    /\ resp[p] # None /\ resp[p].status = status

\* C1: a create_employee call (authenticated, with a name the DTO accepts)
\* whose position_id is the id of no stored position ends at once with
\* status 400, detail "Position not found", and leaves the employee rows as
\* they were.
C1_MissingPositionRejected ==
    [][\A p \in Procs, c \in AllCredentials, n \in AllNames, id \in Ids :
          ( /\ create_employee(p, c, n, id)
            /\ Authenticated(c) /\ valid_name(n)
            /\ StoredPositionName(positions, id) = None )
          => /\ pc'[p] = "idle"
             /\ resp'[p] = Response(400, "Position not found", None)
             /\ employees' = employees]_vars

\* C1 happens: a create_employee was answered "Position not found" while
\* employee rows are stored
C1_Witness ==
    \E p \in Procs :
        /\ Answered(p, "create_employee", 400)
        /\ resp[p].detail = "Position not found"
        /\ employees # {}

\* C2 as claimed: whenever create_employee returns a record and the position
\* is stored at that moment, the record's position_name is the name stored
\* for the position at that moment.
C2_NameCurrentAtReturn ==
    [][\A p \in Procs, id \in Ids :
          ( /\ create_employee_insert(p, id)
            /\ resp'[p].status = 201
            /\ StoredPositionName(positions', req[p].position_id) # None )
          => resp'[p].body.position_name =
               StoredPositionName(positions', req[p].position_id)]_vars

\* C2, amended: the record create_employee returns carries the name the
\* position had when the call looked it up; that is the name stored when the
\* call returns if no other request has written the position in between.
C2_NameAsLookedUp ==
    [][\A p \in Procs :
          /\ \A c \in AllCredentials, n \in AllNames, id \in Ids :
                ( create_employee(p, c, n, id) /\ pc'[p] = "employee_create" )
                => local'[p].position.position_name = StoredPositionName(positions, id)
          /\ \A id \in Ids :
                ( create_employee_insert(p, id) /\ resp'[p].status = 201 )
                => /\ resp'[p].body.position_id = req[p].position_id
                   /\ resp'[p].body.position_name = local[p].position.position_name
                   /\ ~touched[p].call =>
                         resp'[p].body.position_name =
                           StoredPositionName(positions', req[p].position_id)]_vars

\* C2 happens: create_employee has returned a record while the position
\* bears another name than when the call began
C2_Witness ==
    \E p \in Procs :
        /\ Answered(p, "create_employee", 201)
        /\ touched[p].call /\ ~touched[p].ret
        /\ StoredPositionName(positions, req[p].position_id) \notin
              {None, resp[p].body.position_name}

\* request p is over, created the record r, and no other request has written
\* r's row or the position it refers to
Created(p, op, r, untouched) ==
    /\ Answered(p, op, 201)
    /\ resp[p].body = r
    /\ untouched

\* the round trip of records created by p and read by q, "untouched" being
\* taken since p's call (since_call) or since p's return
RoundTrip(p, q, since_call) ==
    LET untouched == IF since_call THEN ~touched[p].call ELSE ~touched[p].ret
        r == resp[p].body
    IN  /\ \A c \in AllCredentials, id \in Ids :
              ( /\ get_position(q, c, id) /\ Authenticated(c)
                /\ Created(p, "create_position", r, untouched)
                /\ r.position_id = id )
              => resp'[q] = Response(200, "", r)
        /\ \A c \in AllCredentials, id \in Ids :
              ( /\ get_employee(q, c, id) /\ Authenticated(c)
                /\ Created(p, "create_employee", r, untouched)
                /\ r.emp_id = id )
              => pc'[q] = "get_employee_position"
        /\ ( /\ get_employee_position(q)
              /\ Created(p, "create_employee", r, untouched)
              /\ r.emp_id = req[q].emp_id )
            => resp'[q] = Response(200, "", r)

\* C3 as claimed: get of a created record returns the record when no other
\* request has written its row, or its position, since the create returned.
C3_RoundTripSinceReturn ==
    [][\A p \in Procs : \A q \in Procs \ {p} : RoundTrip(p, q, FALSE)]_vars

\* C3, amended: get of a created record returns the record when no other
\* request has written its row, or its position, since the create was called.
C3_RoundTripSinceCall ==
    [][\A p \in Procs : \A q \in Procs \ {p} : RoundTrip(p, q, TRUE)]_vars

\* C3 happens: an employee and a position were created, left alone, and read
C3_Witness ==
    \E p \in Procs : \E q \in Procs \ {p} :
        /\ Answered(p, "create_employee", 201) /\ ~touched[p].call
        /\ Answered(q, "get_employee", 200)
        /\ resp[q].body = resp[p].body
        /\ resp[q].body.position_name # None

\* the payload of a token is that of subject s
HasSubject(token, now, s) ==
    LET payload == verify_token(token, now)
    IN  payload # None /\ "sub" \in DOMAIN payload /\ payload.sub = s

\* request p's register was called when its username was registered already
LaterRegister(p) == req[p] # None /\ req[p].op = "register" /\ ~touched[p].free

\* C4 as claimed: once register(u, p1) has succeeded, a later register(u, p2)
\* is answered 400 and leaves the users table as it was; after it login(u, p1)
\* returns a token of subject u and login(u, p2), p2 other than p1, is
\* answered 401 and issues no token.
C4_DuplicateRejected ==
    [][\A p \in Procs :
          /\ \A salt \in Salts :
                ( register_hash(p, salt) /\ registered[req[p].username] # None )
                => /\ pc'[p] = "create_user" \/ resp'[p].status = 400
                   /\ users' = users
          /\ ( register_insert(p) /\ registered[req[p].username] # None )
             => /\ resp'[p].status = 400
                /\ users' = users
          /\ \A q \in Procs \ {p} : \A i \in AuthInputs :
                ( /\ login(q, i[1], i[2])
                  /\ Answered(p, "register", 400) /\ LaterRegister(p)
                  /\ req[p].username = i[1] )
                => IF i[2] = registered[i[1]].password
                   THEN /\ resp'[q].status = 200
                        /\ HasSubject(resp'[q].body.access_token, clock', i[1])
                   ELSE i[2] = req[p].password
                        => /\ resp'[q] = HTTPException(401, "Invalid username or password")
                           /\ issued' = issued]_vars

\* two register requests for the same username, neither begun after the other
\* was over
Concurrent(p, q) ==
    /\ req[p] # None /\ req[p].op = "register"
    /\ req[q] # None /\ req[q].op = "register"
    /\ req[p].username = req[q].username
    /\ q \in touched[p].with \/ p \in touched[q].with

\* bcrypt hashes the password (under any salt)
Hashable(password) ==
    \A salt \in Salts : ~IsExc(_hash_password(bcrypt_version, password, salt))

\* two concurrent register requests for a username that was unregistered
\* when each was called, both over
RaceOver(p, q) ==
    /\ Concurrent(p, q)
    /\ touched[p].free /\ touched[q].free
    /\ pc[p] = "idle" /\ pc[q] = "idle"

C6_CredentialKept ==
    \A u \in Usernames :
        registered[u] # None
        => /\ verify_user(bcrypt_version, users, u, registered[u].password)
                = Return(TRUE)
           /\ \A q \in Passwords \ {registered[u].password} :
                 verify_user(bcrypt_version, users, u, q) = Return(FALSE)

\* C7 as claimed: login returns a token exactly when the username is
\* registered and the password is the one it was registered with; the token
\* has the username as its subject; any other login is answered 401 and
\* issues no token.
C7_TokenIffRegisteredPassword ==
    [][\A p \in Procs, i \in AuthInputs :
          login(p, i[1], i[2])
          => IF registered[i[1]] # None /\ registered[i[1]].password = i[2]
             THEN /\ resp'[p].status = 200
                  /\ HasSubject(resp'[p].body.access_token, clock', i[1])
                  /\ issued' = issued \cup {resp'[p].body.access_token}
             ELSE /\ resp'[p] = HTTPException(401, "Invalid username or password")
                  /\ issued' = issued]_vars

\* the users table of the run in which username is not registered
Unregistered(tbl, username) ==
    SelectSeq(tbl, LAMBDA row : row.username # username)

\* C8 as claimed: a login that fails with a wrong password for a registered
\* username is answered as the same login is in the run where the username
\* is not registered: status 401, the same detail, no token.
C8_FailedLoginsAlike ==
    [][\A p \in Procs, i \in AuthInputs :
          ( /\ login(p, i[1], i[2])
            /\ registered[i[1]] # None /\ registered[i[1]].password # i[2]
            /\ resp'[p].status # 200 )
          => /\ resp'[p] = login_response(bcrypt_version, Unregistered(users, i[1]),
                                          i[1], i[2], clock)
             /\ resp'[p].status = 401
             /\ resp'[p].body = None]_vars

\* C9: the token issued for a subject verifies, at the time it is issued,
\* to a payload of that subject: for every subject, and for the token of
\* every login that succeeds.
C9_VerifyIssued ==
    [][/\ \A s \in Usernames :
             HasSubject(create_access_token([sub |-> s], None, clock), clock, s)
       /\ \A p \in Procs, u \in Usernames, pw \in Passwords :
             ( login(p, u, pw) /\ resp'[p].status = 200 )
             => HasSubject(resp'[p].body.access_token, clock', u)]_vars

\* C9 happens: a login has succeeded after time has passed
C9_Witness ==
    \E p \in Procs :
        /\ Answered(p, "login", 200)
        /\ clock > DefaultTTL
        /\ resp[p].body.access_token.claims.exp = clock + DefaultTTL

\* C10: a token login has issued verifies, and authenticates its subject, at
\* every time before its expiry, whatever has happened since; at every time
\* after its expiry it verifies to None.
C10_ValidUntilExpiry ==
    \A token \in issued :
        /\ clock < token.claims.exp
           => /\ verify_token(token, clock) = token.claims
              /\ get_current_user(token, clock) = [username |-> token.claims.sub]
        /\ clock > token.claims.exp => verify_token(token, clock) = None

\* C10 happens: of two tokens one is past its expiry and the other before
\* it, and positions and employees were written in between
C10_Witness ==
    \E old \in issued, new \in issued :
        /\ old.claims.exp < clock /\ clock < new.claims.exp
        /\ new.claims.exp < clock + DefaultTTL
        /\ employees # {}

\* a protected operation is called by p with these credentials
ProtectedCall(p, c) ==
  /\ pc[p] = "idle" /\ req'[p] # None
  /\ "credentials" \in DOMAIN req'[p] /\ req'[p].credentials = c
  /\
    \/ \E n \in AllNames, id \in Ids : create_position(p, c, n, id)
    \/ \E id \in Ids : get_position(p, c, id)
    \/ get_all_positions(p, c)
    \/ \E n \in AllNames, id \in Ids : update_position(p, c, id, n)
    \/ \E id \in Ids : delete_position(p, c, id)
    \/ \E n \in AllNames, id \in Ids : create_employee(p, c, n, id)
    \/ \E id \in Ids : get_employee(p, c, id)
    \/ get_all_employees(p, c)
    \/ \E id \in Ids, dto \in EmployeeUpdateDTOs(AllNames, Ids) :
          update_employee(p, c, id, dto)
    \/ \E id \in Ids : delete_employee(p, c, id)

\* the signature was not made with the service's key
BadSignature(token) == token.sig # Sign(SECRET_KEY, token.alg, token.claims)

\* the expiry of the token has passed
Expired(token, now) == "exp" \in DOMAIN token.claims /\ token.claims.exp < now

\* the request is over with this answer and no store was written
Refused(p, status) ==
    /\ pc'[p] = "idle"
    /\ resp'[p].status = status
    /\ positions' = positions /\ employees' = employees

\* C11: verify_token never raises: for every token it returns the claims or
\* None, and None for a token signed with another key or past its expiry.
\* A protected request with a token that is signed with another key, is
\* past its expiry or carries no subject claim is answered 401 at once,
\* and its operation does not run: the handler takes no further step and
\* no store is written.
C11_BadTokenRefused ==
    [][\A c \in issued \cup {Forged, NoSubject} :
          /\ ~IsExc(verify_token(c, clock))
          /\ (BadSignature(c) \/ Expired(c, clock)) => verify_token(c, clock) = None
          /\ \A p \in Procs :
                ( /\ \/ BadSignature(c)
                     \/ Expired(c, clock)
                     \/ "sub" \notin DOMAIN c.claims
                  /\ ProtectedCall(p, c) )
                => /\ Refused(p, 401)
                   /\ resp'[p].detail = "Invalid authentication credentials"]_vars

\* C11 happens: with rows stored, a request was refused with 401 for an
\* expired token the service had issued
C11_Witness ==
    \E p \in Procs :
        /\ pc[p] = "idle" /\ req[p] # None /\ resp[p] # None
        /\ resp[p].status = 401
        /\ "credentials" \in DOMAIN req[p]
        /\ req[p].credentials \in issued
        /\ Expired(req[p].credentials, clock)
        /\ positions # {} /\ employees # {}

\* C12: every position and employee operation (create, get, list, update,
\* delete) called without credentials is answered 403, and called with a
\* token that does not verify to a subject is answered 401; in both cases
\* the request is over at once and the position and employee rows are as
\* they were. Only a request whose token verifies goes on to the stores.
C12_StoresNeedBearer ==
    [][\A p \in Procs, c \in AllCredentials \cup {NoSubject} :
          ( ~Authenticated(c) /\ ProtectedCall(p, c) )
          => IF c = None THEN Refused(p, 403) ELSE Refused(p, 401)]_vars

\* C12 happens: with rows stored, a list, an update and a delete are each
\* refused: one request without credentials got 403 to a delete
C12_Witness ==
    \E p \in Procs :
        /\ Answered(p, "delete_employee", 403)
        /\ req[p].credentials = None
        /\ positions # {} /\ employees # {}

\* the row stored for an employee id, None when no row has the id
StoredEmployee(tbl, emp_id) ==
    IF \E row \in tbl : row.emp_id = UuidStr(emp_id)
    THEN CHOOSE row \in tbl : row.emp_id = UuidStr(emp_id)
    ELSE None

\* C13: an authenticated delete_position, and an authenticated
\* delete_employee, whose id is the id of no stored row is answered 404 with
\* the detail of a missing row (not a server fault), at once, and leaves
\* the position rows and the employee rows as they were.
C13_DeleteMissingIs404 ==
    [][\A p \in Procs, c \in AllCredentials, id \in Ids :
          /\ ( /\ delete_position(p, c, id) /\ Authenticated(c)
               /\ StoredPositionName(positions, id) = None )
             => /\ Refused(p, 404)
                /\ resp'[p] = HTTPException(404, "Position not found")
          /\ ( /\ delete_employee(p, c, id) /\ Authenticated(c)
               /\ StoredEmployee(employees, id) = None )
             => /\ Refused(p, 404)
                /\ resp'[p] = HTTPException(404, "Employee not found")]_vars

\* C13 happens: a delete_employee and a delete_position were each answered
\* 404 while other rows are stored
C13_Witness ==
    \E p \in Procs, q \in Procs :
        /\ Answered(p, "delete_employee", 404)
        /\ Answered(q, "delete_position", 404)
        /\ positions # {} /\ employees # {}

\* C14: an authenticated delete_position(id) removes the position row of
\* that id and no other, is answered 204 whenever such a row was stored,
\* also when employee rows refer to it, and leaves every employee row as it
\* was.
C14_DeleteDoesNotCascade ==
    [][\A p \in Procs, c \in AllCredentials, id \in Ids :
          ( delete_position(p, c, id) /\ Authenticated(c) )
          => /\ employees' = employees
             /\ positions' = {row \in positions : row.position_id # UuidStr(id)}
             /\ StoredPositionName(positions, id) # None
                => /\ pc'[p] = "idle"
                   /\ resp'[p] = Response(204, "", None)]_vars

\* C14 happens: a delete_position was answered 204 and an employee row
\* refers to the deleted id, which no position row has any more
C14_Witness ==
    \E p \in Procs :
        /\ Answered(p, "delete_position", 204)
        /\ StoredPositionName(positions, req[p].position_id) = None
        /\ \E row \in employees : row.position_id = UuidStr(req[p].position_id)

\* the response record of an employee whose position is not stored
Dangling(employee) ==
    [emp_id |-> employee.emp_id, name |-> employee.name,
     position_id |-> employee.position_id, position_name |-> None]

\* C15: get_employee of a stored employee (a row with a name the Employee
\* entity accepts) does not fail at reading the row, and when its position
\* lookup finds no row for the employee's position_id
\* it is answered 200 with the employee's id, name and position_id and
\* position_name null. get_all_employees likewise: a turn of its loop that
\* finds no position row for an employee adds that employee with
\* position_name null, and the list is answered 200.
C15_DanglingReadSucceeds ==
    [][\A p \in Procs :
          /\ \A c \in AllCredentials, id \in Ids :
                ( /\ get_employee(p, c, id) /\ Authenticated(c)
                  /\ StoredEmployee(employees, id) # None
                  /\ ~IsExc(employee_get_by_id(employees, id)) )
                => /\ pc'[p] = "get_employee_position"
                   /\ local'[p].employee.name = StoredEmployee(employees, id).name
                   /\ UuidStr(local'[p].employee.position_id)
                        = StoredEmployee(employees, id).position_id
          /\ ( /\ get_employee_position(p)
               /\ StoredPositionName(positions, local[p].employee.position_id) = None )
             => resp'[p] = Response(200, "", Dangling(local[p].employee))
          /\ get_all_employees_position(p)
             => /\ resp'[p] # None => resp'[p].status = 200
                /\ \A employee \in local[p].todo :
                      ( /\ StoredPositionName(positions, employee.position_id) = None
                        /\ \/ pc'[p] = "idle"
                           \/ employee \notin local'[p].todo )
                      => Dangling(employee) \in
                           (IF pc'[p] = "idle" THEN resp'[p].body.items
                            ELSE local'[p].result)]_vars

\* C15 happens: a get_employee was answered 200 with position_name null
\* for an employee that is stored and whose position is not
C15_Witness ==
    \E p \in Procs :
        /\ Answered(p, "get_employee", 200)
        /\ resp[p].body.position_name = None
        /\ StoredEmployee(employees, req[p].emp_id) # None
        /\ StoredPositionName(positions, resp[p].body.position_id) = None

\* C19: whenever create_employee inserts an employee row, in any
\* interleaving with the delete_position calls of other requests, a
\* position row with the new row's position_id is stored at the moment of
\* the insert.
C19_InsertedOnlyIfPositionStored ==
    [][\A p \in Procs, id \in Ids :
          create_employee_insert(p, id)
          => \A row \in employees' \ employees :
                StoredPositionName(positions, UUID(row.position_id)) # None]_vars

BlankName(name) == name # None /\ strip(name) = Empty

\* C16: in every reachable state every stored position has a name that is
\* not empty after trimming whitespace (create_position and update_position
\* refuse any other name and leave the rows as they were).
C16_PositionNamesNonBlank ==
    \A row \in positions : ~BlankName(row.position_name)

\* C17: in every reachable state every stored employee has a name that is
\* neither empty nor whitespace only (create_employee and update_employee
\* refuse any other name and leave the rows as they were).
C17_EmployeeNamesNonBlank ==
    \A row \in employees : ~BlankName(row.name)

\* the name a create or update request carries, None when it carries none
RequestName(p) ==
    IF "position_name" \in DOMAIN req[p] THEN req[p].position_name
    ELSE IF "name" \in DOMAIN req[p] THEN req[p].name
    ELSE None

\* the request of p names a position that has not been stored at any time
\* since the request began
Unresolved(p) ==
    /\ req[p].op \in {"create_employee", "update_employee"}
    /\ "position_id" \in DOMAIN req[p]
    /\ StoredPositionName(positions, req[p].position_id) = None
    /\ ~touched[p].call

\* C18: every authenticated create or update of a position or an employee
\* that carries a name empty after trimming, or a position_id that does
\* not resolve, is refused as invalid: answered 400 (read generously: also
\* the 422 of request validation, or 404 when it is an update of a row
\* that does not exist); none is answered with a server fault or accepted.
C18_InvalidRequestIs400 ==
    \A p \in Procs :
        ( /\ pc[p] = "idle" /\ req[p] # None /\ resp[p] # None
          /\ req[p].op \in {"create_position", "update_position",
                            "create_employee", "update_employee"}
          /\ resp[p].status \notin {401, 403}
          /\ BlankName(RequestName(p)) \/ Unresolved(p) )
        => \/ resp[p].status \in {400, 422}
           \/ /\ resp[p].status = 404
              /\ req[p].op \in {"update_position", "update_employee"}

\* the patch an update_employee request carries: the fields its body sets
Patch(request) ==
    [field \in DOMAIN request \cap {"name", "position_id"} |-> request[field]]

\* C21: an authenticated update_position, and an authenticated
\* update_employee with any patch the DTO accepts (also one whose
\* position_id does not resolve), whose id is the id of no stored row is
\* answered 404 at once with the detail of the missing row, and the position
\* rows and employee rows are as they were. The same holds at the UPDATE
\* when the row was deleted after the handler had read it: the UPDATE
\* matches nothing, creates no row and the answer is 404.
C21_UpdateMissingIs404 ==
    [][\A p \in Procs :
          /\ ( /\ pc[p] = "idle" /\ req'[p] # None /\ req'[p].op = "update_position"
               /\ Authenticated(req'[p].credentials)
               /\ valid_name(req'[p].position_name)
               /\ StoredPositionName(positions, req'[p].position_id) = None
               /\ update_position(p, req'[p].credentials, req'[p].position_id,
                                  req'[p].position_name) )
             => /\ Refused(p, 404)
                /\ resp'[p] = HTTPException(404, "Position not found")
          /\ ( /\ pc[p] = "idle" /\ req'[p] # None /\ req'[p].op = "update_employee"
               /\ Authenticated(req'[p].credentials)
               /\ valid_optional_name(EmployeeUpdateDTO_name(req'[p]))
               /\ StoredEmployee(employees, req'[p].emp_id) = None
               /\ update_employee(p, req'[p].credentials, req'[p].emp_id,
                                  Patch(req'[p])) )
             => /\ Refused(p, 404)
                /\ resp'[p] = HTTPException(404, "Employee not found")
          /\ ( /\ update_position_update(p)
               /\ StoredPositionName(positions, req[p].position_id) = None )
             => /\ Refused(p, 404)
                /\ resp'[p] = HTTPException(404, "Position not found")
          /\ ( /\ update_employee_update(p)
               /\ StoredEmployee(employees, req[p].emp_id) = None )
             => /\ Refused(p, 404)
                /\ resp'[p] = HTTPException(404, "Employee not found")]_vars

\* C21 happens: an update_employee of an id that is not stored, with a
\* patch whose position_id does not resolve, was answered 404 while another
\* employee row and a position row are stored
C21_Witness ==
    \E p \in Procs :
        /\ Answered(p, "update_employee", 404)
        /\ StoredEmployee(employees, req[p].emp_id) = None
        /\ "position_id" \in DOMAIN req[p]
        /\ StoredPositionName(positions, req[p].position_id) = None
        /\ ~touched[p].call
        /\ positions # {} /\ employees # {}

\* C22: update_employee writes at its UPDATE only: that step leaves the
\* position rows, the set of employee ids and every other employee row as
\* they were, and the handler's other steps change no row. When no other
\* request has written the target row since the handler began, the row
\* after the UPDATE has the patch's name if the patch supplies one and its
\* former name otherwise, and the patch's position_id if the patch
\* supplies one and its former position_id otherwise.
C22_PatchChangesOnlyItsFields ==
    [][\A p \in Procs :
          /\ ( \/ update_employee_position(p)
               \/ update_employee_enrich(p)
               \/ /\ pc[p] = "idle" /\ req'[p] # None /\ req'[p].op = "update_employee"
                  /\ update_employee(p, req'[p].credentials, req'[p].emp_id,
                                     Patch(req'[p])) )
             => positions' = positions /\ employees' = employees
          /\ update_employee_update(p)
             => LET old == StoredEmployee(employees, req[p].emp_id)
                    new == StoredEmployee(employees', req[p].emp_id)
                IN  /\ positions' = positions
                    /\ {row.emp_id : row \in employees'} = {row.emp_id : row \in employees}
                    /\ employees \ {old} = employees' \ {new}
                    /\ (old # None /\ ~touched[p].call)
                       => /\ new.emp_id = old.emp_id
                          /\ new.name = IF "name" \in DOMAIN req[p]
                                        THEN req[p].name ELSE old.name
                          /\ new.position_id = IF "position_id" \in DOMAIN req[p]
                                               THEN UuidStr(req[p].position_id)
                                               ELSE old.position_id]_vars

\* C22 happens: a patch of the position_id alone was answered 200 with no
\* other request writing the row meanwhile; the row has the new position_id
\* and keeps the name an earlier patch of the name alone had given it
C22_Witness ==
    \E p \in Procs :
        /\ Answered(p, "update_employee", 200) /\ ~touched[p].call
        /\ "name" \notin DOMAIN req[p] /\ "position_id" \in DOMAIN req[p]
        /\ StoredEmployee(employees, req[p].emp_id) # None
        /\ StoredEmployee(employees, req[p].emp_id).name = Manager
        /\ StoredEmployee(employees, req[p].emp_id).position_id = UuidStr(2)
        /\ resp[p].body.name = Manager /\ resp[p].body.position_id = 2

\* request p was written on by another request while it ran, and by none
\* since it returned
WrittenOnDuring(p) == touched[p].call /\ ~touched[p].ret

\* C29: when an update_employee that supplies only a name and an
\* update_employee that supplies only a position_id have run concurrently
\* on the same stored employee (one wrote the row while the other ran),
\* both were answered 200 and nothing has written the row since, the
\* stored row has the new name and the new position_id.
C29_NoLostUpdate ==
    \A p \in Procs : \A q \in Procs \ {p} :
        ( /\ Answered(p, "update_employee", 200)
          /\ Answered(q, "update_employee", 200)
          /\ req[p].emp_id = req[q].emp_id
          /\ "name" \in DOMAIN req[p] /\ "position_id" \notin DOMAIN req[p]
          /\ "position_id" \in DOMAIN req[q] /\ "name" \notin DOMAIN req[q]
          /\ WrittenOnDuring(p) \/ WrittenOnDuring(q)
          /\ ~touched[p].ret /\ ~touched[q].ret )
        => LET row == StoredEmployee(employees, req[p].emp_id)
           IN  /\ row # None
               /\ row.name = req[p].name
               /\ row.position_id = UuidStr(req[q].position_id)

\* request q was answered 204 to a delete of this id, and no other request
\* has written the id since q began
DeletedBy(q, op, field, id) ==
    /\ Answered(q, op, 204) /\ req[q][field] = id
    /\ ~touched[q].call

\* C23: an authenticated delete_position or delete_employee is answered 204
\* exactly when a row with the id was stored when it ran, and 404
\* otherwise; after it no row has the id. While no row has the id (until
\* it is created again) get_position and get_employee of it are answered
\* 404. Of two deletes of one stored row exactly one is answered 204:
\* while the 204 of one request stands and nothing has created the id
\* again, a delete of the id by another request is answered 404.
C23_DeleteTrueIffRemoved ==
    [][\A p \in Procs :
          /\ ( /\ pc[p] = "idle" /\ req'[p] # None /\ req'[p].op = "delete_position"
               /\ Authenticated(req'[p].credentials)
               /\ delete_position(p, req'[p].credentials, req'[p].position_id) )
             => LET id == req'[p].position_id
                IN  /\ resp'[p].status =
                         IF StoredPositionName(positions, id) # None THEN 204 ELSE 404
                    /\ StoredPositionName(positions', id) = None
                    /\ \A q \in Procs \ {p} :
                          DeletedBy(q, "delete_position", "position_id", id)
                          => resp'[p].status = 404
          /\ ( /\ pc[p] = "idle" /\ req'[p] # None /\ req'[p].op = "delete_employee"
               /\ Authenticated(req'[p].credentials)
               /\ delete_employee(p, req'[p].credentials, req'[p].emp_id) )
             => LET id == req'[p].emp_id
                IN  /\ resp'[p].status =
                         IF StoredEmployee(employees, id) # None THEN 204 ELSE 404
                    /\ StoredEmployee(employees', id) = None
                    /\ \A q \in Procs \ {p} :
                          DeletedBy(q, "delete_employee", "emp_id", id)
                          => resp'[p].status = 404
          /\ ( /\ pc[p] = "idle" /\ req'[p] # None /\ req'[p].op = "get_position"
               /\ Authenticated(req'[p].credentials)
               /\ StoredPositionName(positions, req'[p].position_id) = None
               /\ get_position(p, req'[p].credentials, req'[p].position_id) )
             => resp'[p] = HTTPException(404, "Position not found")
          /\ ( /\ pc[p] = "idle" /\ req'[p] # None /\ req'[p].op = "get_employee"
               /\ Authenticated(req'[p].credentials)
               /\ StoredEmployee(employees, req'[p].emp_id) = None
               /\ get_employee(p, req'[p].credentials, req'[p].emp_id) )
             => resp'[p] = HTTPException(404, "Employee not found")]_vars

\* C23 happens: two requests deleted the same position, one was answered
\* 204 and the other 404, nothing has created the id again, and another
\* position is stored
C23_Witness ==
    \E p \in Procs : \E q \in Procs \ {p} :
        /\ DeletedBy(p, "delete_position", "position_id", req[p].position_id)
        /\ Answered(q, "delete_position", 404)
        /\ req[q].position_id = req[p].position_id
        /\ positions # {}

\* C24: initialize leaves the rows of every table the file has as they
\* were and ends with the three tables of the schema; run on its own
\* result it changes nothing, so running it twice gives the state that
\* running it once gives.
C24_InitializeIdempotent ==
    [][/\ DatabaseConnection_initialize(DatabaseConnection_initialize(Database))
            = DatabaseConnection_initialize(Database)
       /\ initialize
          => /\ tables' = TableNames
             /\ "positions" \in tables => positions' = positions
             /\ "employees" \in tables => employees' = employees
             /\ "users" \in tables => users' = users
             /\ DatabaseConnection_initialize(Database') = Database']_vars

\* C24 happens: initialize has run on a new file and again on the file
\* when it held positions, employees and users, and the rows are there
C24_Witness ==
    /\ {"new", "filled"} \subseteq startups
    /\ positions # {} /\ employees # {} /\ users # <<>>
    /\ \E p \in Procs : Answered(p, "create_employee", 201)

\* C25: at every time, for every subject and every lifetime passed to
\* create_access_token, a lifetime of zero included, the expiry of the token
\* is the time of issue plus the lifetime; with no lifetime passed it is
\* the time of issue plus 24 hours.
C25_ExpiryIsIssuePlusLifetime ==
    [][\A s \in Usernames, ttl \in Lifetimes :
          issue(s, ttl)
          => \E token \in issued' :
                /\ token = create_access_token([sub |-> s], ttl, clock)
                /\ token.claims.exp
                     = clock + (IF ttl = None THEN DefaultTTL ELSE ttl.hours)]_vars

\* the employees the turn of the list loop that p takes appends
Appended(p) ==
    IF pc'[p] = "idle"
    THEN IF resp'[p].status = 200 THEN resp'[p].body.items \ local[p].result ELSE {}
    ELSE local'[p].result \ local[p].result

\* C26: once update_position(id, n) has succeeded, and until position id is
\* written again, every get_employee and every list that looks the position
\* of an employee of position id up answers with position_name n (the read
\* does not fail); and no step of update_position changes an employee row.
C26_ReadsSeeRenamedPosition ==
    [][\A q \in Procs, p \in Procs :
          /\ ( /\ Answered(q, "update_position", 200) /\ ~touched[q].call
               /\ pc[p] = "get_employee_position"
               /\ local[p].employee.position_id = req[q].position_id
               /\ get_employee_position(p) )
             => /\ resp'[p].status = 200
                /\ resp'[p].body.position_name = req[q].position_name
          /\ ( /\ Answered(q, "update_position", 200) /\ ~touched[q].call
               /\ pc[p] = "get_all_employees_position"
               /\ \A e \in local[p].todo : e.position_id = req[q].position_id
               /\ get_all_employees_position(p) )
             => /\ pc'[p] = "idle" => resp'[p].status = 200
                /\ \A e \in Appended(p) : e.position_name = req[q].position_name
          /\ ( /\ req'[p] # None /\ req'[p].op = "update_position"
               /\ (pc'[p] # pc[p] \/ resp'[p] # resp[p]) )
             => employees' = employees]_vars

\* what get_employee answers for a stored employee in the current state:
\* the enriched employee, or the error of a row that cannot be rebuilt
GetEmployeeNow(emp_id) ==
    LET employee == employee_get_by_id(employees, emp_id)
    IN  IF IsExc(employee) THEN employee
        ELSE EmployeeUseCase_get_employee(positions, employee)

\* the answer the claim gives the list of employees in the current state
ListOfEmployeesNow ==
    LET got == {GetEmployeeNow(UUID(row.emp_id)) : row \in employees}
    IN  IF \E g \in got : IsExc(g) THEN InternalServerError
        ELSE Response(200, "", [items |-> got])

\* the answer the claim gives the list of positions in the current state
ListOfPositionsNow ==
    IF \E row \in positions : BlankName(row.position_name) THEN InternalServerError
    ELSE Response(200, "",
                  [items |-> {[position_id |-> UUID(row.position_id),
                               position_name |-> row.position_name] : row \in positions}])

C28_CreateAddsOneNewRow ==
    [][\A p \in Procs :
          /\ ( /\ pc[p] = "idle"
               /\ req'[p] # None /\ req'[p].op = "create_position"
               /\ \E id \in Ids : create_position(p, req'[p].credentials,
                                                  req'[p].position_name, id) )
             => /\ employees' = employees
                /\ IF resp'[p].status = 201
                   THEN \E row \in positions' :
                           /\ row.position_id = UuidStr(resp'[p].body.position_id)
                           /\ \A old \in positions : old.position_id # row.position_id
                           /\ positions' = positions \cup {row}
                   ELSE positions' = positions
          /\ ( /\ pc[p] = "employee_create"
               /\ \E id \in Ids : create_employee_insert(p, id) )
             => /\ positions' = positions
                /\ IF resp'[p].status = 201
                   THEN \E row \in employees' :
                           /\ row.emp_id = UuidStr(resp'[p].body.emp_id)
                           /\ \A old \in employees : old.emp_id # row.emp_id
                           /\ employees' = employees \cup {row}
                   ELSE employees' = employees
          /\ ( /\ pc[p] = "idle"
               /\ req'[p] # None /\ req'[p].op = "create_employee"
               /\ (pc'[p] # pc[p] \/ resp'[p] # resp[p]) )
             => positions' = positions /\ employees' = employees]_vars

\* C28 happens: creates have succeeded one after another, the last one an
\* employee, and both tables hold two rows, one of them renamed since
C28_Witness ==
    /\ Cardinality(positions) = 2 /\ Cardinality(employees) = 2
    /\ Answered(1, "create_employee", 201)
    /\ \E row \in positions : row.position_name = Manager

\* C30: in every state that creates, updates and deletes lead to,
\* get_position, get_employee and both lists answer with a result (a record,
\* not found, or a list): no read fails on a row that cannot be rebuilt into
\* its entity.
C30_StoredRowsStayReadable ==
    \A p \in Procs :
       ( /\ pc[p] = "idle" /\ req[p] # None /\ resp[p] # None
         /\ req[p].op \in {"get_position", "get_employee",
                           "get_all_positions", "get_all_employees"} )
       => resp[p].status \in {200, 404}

====
